---- MODULE Spec2Model ----
(***************************************************************************)
(* Model of backend/app.py: the startup loading of the two YOLO models and *)
(* the POST /predict handler (validation, decoding, detection inference,   *)
(* classification inference, aggregation, exception handler).              *)
(*                                                                         *)
(* Confidences are measured in tenths: 1 stands for 0.1, 5 for 0.5.        *)
(* Python list indices are kept 0-based (negative indices count from the   *)
(* end); TLA+ sequences are 1-based, the conversion is in Label.           *)
(***************************************************************************)
EXTENDS Integers, Sequences, FiniteSets, TLC

\* ---------------------------------------------------------------- bounds
MaxBoxes == 2
MaxConf == 3

\* ------------------------------------------------------ program constants
ConfidenceFloor == 1
FallbackConfidence == 5
Top5Len == 5

class_names_1_with_healthy == <<"bud root dropping", "healthy", "gray leaf spot", "leaf rot", "stembleeding">>
class_names_1 == <<"bud root dropping", "bud rot", "gray leaf spot", "leaf rot", "stembleeding">>
class_names_2 == <<"caterpillars", "drying", "flaccidity", "healthy", "leaflet", "yellowing">>

VARIABLES model1, model1_type, model2, model2_type, pc, request,
          results1, results2, calls1, calls2, all_detections, response

vars == <<model1, model1_type, model2, model2_type, pc, request,
          results1, results2, calls1, calls2, all_detections, response>>

\* ------------------------------------------------------------ input sets
Confs == 0..MaxConf

\* class indices a detection box may carry: -1 (Python: last label),
\* 1 (a label), 5 (one past the end of class_names_1)
DetIdx == {-1, 1, 5}
Boxes == [cls : DetIdx, conf : Confs]
BoxSeqs == UNION {[1..n -> Boxes] : n \in 0..MaxBoxes}

\* probs.top5: five distinct class indices, best first
Rot(k) == [i \in 1..Top5Len |-> (k + i - 1) % Len(class_names_2)]
Rankings == {Rot(k) : k \in 0..(Len(class_names_2) - 1)} \cup {<<0, 6, 3, 1, 2>>}
\* probs.top5conf: their confidences, in descending order
ConfSeqs == {s \in [1..Top5Len -> Confs] : \A i \in 1..(Top5Len - 1) : s[i] >= s[i + 1]}

\* image_ok: whether the uploaded bytes decode as an image
NoRequest == [has_file |-> FALSE, filename |-> "", image_ok |-> FALSE]
Requests == {NoRequest}
            \cup [has_file : {TRUE}, filename : {"", "leaf.jpg"}, image_ok : BOOLEAN]

NotRun1 == [kind |-> "not_run", boxes |-> <<>>]
NotRun2 == [kind |-> "not_run", top5 |-> <<>>, top5conf |-> <<>>]
Results1 == {[kind |-> "raise", boxes |-> <<>>]}
            \cup {[kind |-> "ok", boxes |-> b] : b \in BoxSeqs}
Results2 == {[kind |-> "raise", top5 |-> <<>>, top5conf |-> <<>>],
             [kind |-> "no_probs", top5 |-> <<>>, top5conf |-> <<>>]}
            \cup {[kind |-> "ok", top5 |-> r, top5conf |-> c] : r \in Rankings, c \in ConfSeqs}

\* --------------------------------------------------------------- helpers
\* names[i] of Python for a list `names`
ValidIndex(names, i) == i >= -Len(names) /\ i < Len(names)
Label(names, i) == IF i >= 0 THEN names[i + 1] ELSE names[Len(names) + i + 1]
AllValid(names, idxs) == \A i \in 1..Len(idxs) : ValidIndex(names, idxs[i])

JsonResponse(status, body) == [status |-> status, body |-> body]
NoResponse == JsonResponse(0, <<>>)

\* lines 64-72: the early returns of predict; status 0 = no early return
EarlyReturnNoFilenameCheck(m1, m2, req) ==
    IF m1 = "None" /\ m2 = "None" THEN JsonResponse(500, [error |-> "Models not loaded"])
    ELSE IF ~req.has_file THEN JsonResponse(400, [error |-> "No file part"])
    ELSE NoResponse
EarlyReturnAnyMissing(m1, m2, req) ==
    IF m1 = "None" \/ m2 = "None" THEN JsonResponse(500, [error |-> "Models not loaded"])
    ELSE IF ~req.has_file THEN JsonResponse(400, [error |-> "No file part"])
    ELSE IF req.filename = "" THEN JsonResponse(400, [error |-> "No selected file"])
    ELSE NoResponse
EarlyReturn(m1, m2, req) ==
    IF m1 = "None" /\ m2 = "None" THEN JsonResponse(500, [error |-> "Models not loaded"])
    ELSE IF ~req.has_file THEN JsonResponse(400, [error |-> "No file part"])
    ELSE IF req.filename = "" THEN JsonResponse(400, [error |-> "No selected file"])
    ELSE NoResponse

\* lines 156-160: the except clause
ExceptResponseWithFindings(msg, dets) ==
    JsonResponse(500, [error |-> msg, all_detections |-> dets])
ExceptResponse(msg, dets) == JsonResponse(500, [error |-> msg])

\* lines 86-93: one finding per box
DetectionFindingsFiltered(boxes) ==
    LET kept == SelectSeq(boxes, LAMBDA b : b.conf > ConfidenceFloor)
    IN [i \in 1..Len(kept) |-> [class |-> Label(class_names_1, kept[i].cls),
                                confidence |-> kept[i].conf,
                                model |-> "detection"]]
DetectionFindings(boxes) ==
    [i \in 1..Len(boxes) |-> [class |-> Label(class_names_1, boxes[i].cls),
                              confidence |-> boxes[i].conf,
                              model |-> "detection"]]

\* line 111
RetainedAtFloor(confidence) == confidence >= ConfidenceFloor
Retained(confidence) == confidence > ConfidenceFloor

\* lines 105-116: the loop over zip(top5_indices, top5_conf)
RECURSIVE ClsLoop(_, _, _)
ClsLoop(top5, top5conf, i) ==
    IF i > Len(top5) \/ i > Len(top5conf) THEN <<>>
    ELSE (IF Retained(top5conf[i])
          THEN <<[class |-> Label(class_names_2, top5[i]),
                  confidence |-> top5conf[i],
                  model |-> "classification"]>>
          ELSE <<>>) \o ClsLoop(top5, top5conf, i + 1)
ClassificationFindings(top5, top5conf) == ClsLoop(top5, top5conf, 1)

\* line 121
NonHealthy(dets) == SelectSeq(dets, LAMBDA d : d.class # "healthy")

\* lines 124, 138: max(seq, key=confidence) of Python, the first maximum
RECURSIVE MaxLoopLast(_, _, _)
MaxLoopLast(dets, i, best) ==
    IF i > Len(dets) THEN best
    ELSE MaxLoopLast(dets, i + 1,
                     IF dets[i].confidence >= best.confidence THEN dets[i] ELSE best)
MaxByConfidenceLast(dets) == MaxLoopLast(dets, 2, dets[1])
RECURSIVE MaxLoop(_, _, _)
MaxLoop(dets, i, best) ==
    IF i > Len(dets) THEN best
    ELSE MaxLoop(dets, i + 1,
                 IF dets[i].confidence > best.confidence THEN dets[i] ELSE best)
MaxByConfidence(dets) == MaxLoop(dets, 2, dets[1])

\* lines 121-154: the aggregation
AggregateNoHealthyBranch(dets) ==
    LET non_healthy == NonHealthy(dets) IN
    IF non_healthy # <<>>
    THEN [prediction |-> MaxByConfidence(non_healthy).class,
          confidence |-> MaxByConfidence(non_healthy).confidence,
          all_detections |-> dets,
          total_diseases |-> Len(non_healthy)]
    ELSE [prediction |-> "healthy", confidence |-> FallbackConfidence,
          all_detections |-> <<>>, total_diseases |-> 0]
AggregateNoFallback(dets) ==
    LET non_healthy == NonHealthy(dets) IN
    IF non_healthy # <<>>
    THEN [prediction |-> MaxByConfidence(non_healthy).class,
          confidence |-> MaxByConfidence(non_healthy).confidence,
          all_detections |-> dets,
          total_diseases |-> Len(non_healthy)]
    ELSE [prediction |-> "healthy",
          confidence |-> IF dets # <<>> THEN MaxByConfidence(dets).confidence ELSE 0,
          all_detections |-> dets,
          total_diseases |-> 0]
AggregateCountAll(dets) ==
    LET non_healthy == NonHealthy(dets) IN
    IF non_healthy # <<>>
    THEN [prediction |-> MaxByConfidence(non_healthy).class,
          confidence |-> MaxByConfidence(non_healthy).confidence,
          all_detections |-> dets,
          total_diseases |-> Len(dets)]
    ELSE IF dets # <<>>
    THEN [prediction |-> "healthy",
          confidence |-> MaxByConfidence(dets).confidence,
          all_detections |-> dets,
          total_diseases |-> 0]
    ELSE [prediction |-> "healthy", confidence |-> FallbackConfidence,
          all_detections |-> <<>>, total_diseases |-> 0]
Aggregate(dets) ==
    LET non_healthy == NonHealthy(dets) IN
    IF non_healthy # <<>>
    THEN [prediction |-> MaxByConfidence(non_healthy).class,
          confidence |-> MaxByConfidence(non_healthy).confidence,
          all_detections |-> dets,
          total_diseases |-> Len(non_healthy)]
    ELSE IF dets # <<>>
    THEN [prediction |-> "healthy",
          confidence |-> MaxByConfidence(dets).confidence,
          all_detections |-> dets,
          total_diseases |-> 0]
    ELSE [prediction |-> "healthy", confidence |-> FallbackConfidence,
          all_detections |-> <<>>, total_diseases |-> 0]

\* ------------------------------------------------------------------ Init
Init ==
    /\ model1 = "None" /\ model1_type = "None"
    /\ model2 = "None" /\ model2_type = "None"
    /\ pc = "load1"
    /\ request = NoRequest
    /\ results1 = NotRun1
    /\ results2 = NotRun2
    /\ calls1 = 0 /\ calls2 = 0
    /\ all_detections = <<>>
    /\ response = NoResponse

requestVars == <<request, results1, results2, calls1, calls2,
                 all_detections, response>>
modelVars == <<model1, model1_type, model2, model2_type>>

\* --------------------------------------------------------------- startup
\* lines 33-42
LoadModel1 ==
    /\ pc = "load1"
    /\ \E ok \in BOOLEAN :
         /\ model1' = IF ok THEN "YOLO" ELSE "None"
         /\ model1_type' = IF ok THEN "detection" ELSE "None"
    /\ pc' = "load2"
    /\ UNCHANGED <<model2, model2_type, requestVars>>

\* lines 44-53
LoadModel2 ==
    /\ pc = "load2"
    /\ \E ok \in BOOLEAN :
         /\ model2' = IF ok THEN "YOLO" ELSE "None"
         /\ model2_type' = IF ok THEN "classify" ELSE "None"
    /\ pc' = "idle"
    /\ UNCHANGED <<model1, model1_type, requestVars>>

\* --------------------------------------------------------------- predict
\* lines 63-72: a request arrives; the early returns
Receive ==
    /\ pc = "idle"
    /\ \E req \in Requests :
         /\ request' = req
         /\ response' = EarlyReturn(model1, model2, req)
         /\ pc' = IF EarlyReturn(model1, model2, req).status # 0 THEN "done" ELSE "decode"
    /\ UNCHANGED <<modelVars, results1, results2, calls1, calls2, all_detections>>

\* lines 76-79: Image.open(...).convert('RGB'); all_detections = []
Decode ==
    /\ pc = "decode"
    /\ response' = IF request.image_ok THEN response
                    ELSE ExceptResponse("cannot identify image file", all_detections)
    /\ pc' = IF request.image_ok THEN "detect" ELSE "done"
    /\ all_detections' = <<>>
    /\ UNCHANGED <<modelVars, request, results1, results2, calls1, calls2>>

\* lines 82-94
Detect ==
    /\ pc = "detect"
    /\ IF model1 # "None" /\ model1_type = "detection"
       THEN \E r \in Results1 :
              /\ results1' = r
              /\ calls1' = calls1 + 1
              /\ IF r.kind = "raise"
                 THEN /\ response' = ExceptResponse("detection inference failed", all_detections)
                      /\ pc' = "done"
                      /\ UNCHANGED all_detections
                 ELSE IF ~AllValid(class_names_1, [i \in 1..Len(r.boxes) |-> r.boxes[i].cls])
                 THEN /\ response' = ExceptResponse("list index out of range", all_detections)
                      /\ pc' = "done"
                      /\ UNCHANGED all_detections
                 ELSE /\ all_detections' = all_detections \o DetectionFindings(r.boxes)
                      /\ pc' = "classify"
                      /\ UNCHANGED response
       ELSE /\ pc' = "classify"
            /\ UNCHANGED <<results1, calls1, all_detections, response>>
    /\ UNCHANGED <<modelVars, request, results2, calls2>>

\* lines 97-117
Classify ==
    /\ pc = "classify"
    /\ IF model2 # "None" /\ model2_type = "classify"
       THEN \E r \in Results2 :
              /\ results2' = r
              /\ calls2' = calls2 + 1
              /\ IF r.kind = "raise"
                 THEN /\ response' = ExceptResponse("classification inference failed", all_detections)
                      /\ pc' = "done"
                      /\ UNCHANGED all_detections
                 ELSE IF r.kind = "ok" /\ ~AllValid(class_names_2, r.top5)
                 THEN /\ response' = ExceptResponse("list index out of range", all_detections)
                      /\ pc' = "done"
                      /\ UNCHANGED all_detections
                 ELSE /\ all_detections' = all_detections
                                             \o ClassificationFindings(r.top5, r.top5conf)
                      /\ pc' = "aggregate"
                      /\ UNCHANGED response
       ELSE /\ pc' = "aggregate"
            /\ UNCHANGED <<results2, calls2, all_detections, response>>
    /\ UNCHANGED <<modelVars, request, results1, calls1>>

\* lines 119-154
AggregateStep ==
    /\ pc = "aggregate"
    /\ response' = JsonResponse(200, Aggregate(all_detections))
    /\ pc' = "done"
    /\ UNCHANGED <<modelVars, request, results1, results2, calls1, calls2,
                   all_detections>>

\* the response is sent; the request's locals are gone and the server waits
Finish ==
    /\ pc = "done"
    /\ pc' = "idle"
    /\ request' = NoRequest
    /\ results1' = NotRun1
    /\ results2' = NotRun2
    /\ calls1' = 0 /\ calls2' = 0
    /\ all_detections' = <<>>
    /\ response' = NoResponse
    /\ UNCHANGED modelVars

Next ==
    \/ LoadModel1
    \/ LoadModel2
    \/ Receive
    \/ Decode
    \/ Detect
    \/ Classify
    \/ AggregateStep
    \/ Finish

Spec == Init /\ [][Next]_vars

\* ---------------------------------------------------------------- claims
Done200 == pc = "done" /\ response.status = 200
Neither == model1 = "None" /\ model2 = "None"
ExactlyOne == (model1 = "None") # (model2 = "None")
ValidUpload == request.has_file /\ request.filename # ""
InHandlerBody == pc \in {"decode", "detect", "classify", "aggregate"}

NHIdx(L) == {i \in 1..Len(L) : L[i].class # "healthy"}
FirstMaxIdx(L) ==
    CHOOSE i \in NHIdx(L) :
        \A j \in NHIdx(L) : \/ L[j].confidence < L[i].confidence
                            \/ (L[j].confidence = L[i].confidence /\ j >= i)
ClsIdx(L) == {i \in 1..Len(L) : L[i].model = "classification"}
DetIdxOf(L) == {i \in 1..Len(L) : L[i].model = "detection"}
BoxIndexError == results1.kind = "ok"
                 /\ \E i \in 1..Len(results1.boxes) :
                        ~ValidIndex(class_names_1, results1.boxes[i].cls)
Top5IndexError == results2.kind = "ok"
                  /\ \E i \in 1..Len(results2.top5) :
                         ~ValidIndex(class_names_2, results2.top5[i])
Raised == /\ ~Neither /\ ValidUpload /\ pc = "done"
          /\ \/ ~request.image_ok
             \/ results1.kind = "raise" \/ BoxIndexError
             \/ results2.kind = "raise" \/ Top5IndexError

\* C1: when the merged finding list holds a non-healthy entry, the 200
\* response carries the class and the confidence of the first non-healthy
\* entry of maximum confidence; healthy entries play no part.
C1_PredictionIsFirstMaxNonHealthy ==
    (Done200 /\ NHIdx(all_detections) # {}) =>
        /\ response.body.prediction = all_detections[FirstMaxIdx(all_detections)].class
        /\ response.body.confidence = all_detections[FirstMaxIdx(all_detections)].confidence
        /\ response.body.prediction # "healthy"

\* a tie between two different diseases at the top, and a healthy entry above both
C1_Witness ==
    /\ Done200
    /\ \E i, j, h \in 1..Len(all_detections) :
         /\ i < j
         /\ all_detections[i].class # "healthy" /\ all_detections[j].class # "healthy"
         /\ all_detections[i].class # all_detections[j].class
         /\ all_detections[i].confidence = all_detections[j].confidence
         /\ i = FirstMaxIdx(all_detections)
         /\ all_detections[h].class = "healthy"
         /\ all_detections[h].confidence > all_detections[i].confidence
         /\ response.body.prediction = all_detections[i].class

\* C2: when the merged finding list is non-empty and all healthy, the 200
\* response is healthy, with the largest confidence of the list and
\* total_diseases 0.
C2_OnlyHealthy ==
    (Done200 /\ all_detections # <<>> /\ NHIdx(all_detections) = {}) =>
        /\ response.body.prediction = "healthy"
        /\ response.body.total_diseases = 0
        /\ \E i \in 1..Len(all_detections) :
               response.body.confidence = all_detections[i].confidence
        /\ \A i \in 1..Len(all_detections) :
               response.body.confidence >= all_detections[i].confidence

C2_Witness ==
    /\ Done200
    /\ all_detections # <<>> /\ NHIdx(all_detections) = {}
    /\ results1.kind = "ok" /\ results2.kind = "ok"
    /\ response.body.confidence = MaxConf

\* C3: in a 200 response the prediction is the class of some entry of
\* all_detections, or all_detections is empty and the response is the fixed
\* healthy / 0.5 / [] / 0 answer.
C3_PredictionPresentOrDefault ==
    Done200 =>
        IF response.body.all_detections = <<>>
        THEN response.body = [prediction |-> "healthy", confidence |-> 5,
                              all_detections |-> <<>>, total_diseases |-> 0]
        ELSE \E i \in 1..Len(response.body.all_detections) :
                 response.body.all_detections[i].class = response.body.prediction

\* both models ran, neither contributed a finding
C3_Witness ==
    /\ Done200
    /\ response.body.all_detections = <<>>
    /\ results1.kind = "ok" /\ results2.kind = "ok"
    /\ response.body.confidence = 5

\* C4: total_diseases counts the non-healthy entries of the returned list.
C4_TotalDiseasesCount ==
    Done200 =>
        response.body.total_diseases = Cardinality(NHIdx(response.body.all_detections))

C4_Witness ==
    /\ Done200
    /\ NHIdx(response.body.all_detections) # {}
    /\ \E i \in 1..Len(response.body.all_detections) :
           response.body.all_detections[i].class = "healthy"
    /\ response.body.total_diseases = Len(response.body.all_detections) - 1

C7_Original ==
    pc = "done" =>
        /\ ~request.has_file =>
               response = JsonResponse(400, [error |-> "No file part"])
        /\ (request.has_file /\ request.filename = "") =>
               response = JsonResponse(400, [error |-> "No selected file"])
        /\ ~ValidUpload => (calls1 = 0 /\ calls2 = 0)

\* C7 amended: with at least one model loaded the two 400 answers are given
\* as stated; with neither model loaded the same requests are answered 500
\* "Models not loaded"; in no case is a model invoked, and the handler body
\* is entered only with a named file.
C7_Amended ==
    /\ pc = "done" =>
        /\ (~Neither /\ ~request.has_file) =>
               response = JsonResponse(400, [error |-> "No file part"])
        /\ (~Neither /\ request.has_file /\ request.filename = "") =>
               response = JsonResponse(400, [error |-> "No selected file"])
        /\ (Neither /\ ~ValidUpload) =>
               response = JsonResponse(500, [error |-> "Models not loaded"])
        /\ ~ValidUpload => (calls1 = 0 /\ calls2 = 0 /\ results1.kind = "not_run"
                            /\ results2.kind = "not_run")
    /\ InHandlerBody => ValidUpload

C7_Witness ==
    /\ pc = "done"
    /\ ~Neither
    /\ request.has_file /\ request.filename = ""
    /\ response.status = 400

C9_RaiseGives500 ==
    Raised =>
        /\ response.status = 500
        /\ DOMAIN response.body = {"error"}
        /\ calls1 <= 1 /\ calls2 <= 1

\* the detection model reported boxes, then classification failed
C9_Witness ==
    /\ pc = "done"
    /\ results1.kind = "ok" /\ Len(results1.boxes) > 0
    /\ all_detections # <<>>
    /\ results2.kind = "raise"
    /\ response.status = 500

\* C10: detection findings are never healthy; a healthy 200 response holds
\* no detection entry, and a request on which the detection model reported a
\* box is answered with a disease and total_diseases >= 1.
C10_DetectionNeverHealthy ==
    /\ \A i \in DetIdxOf(all_detections) : all_detections[i].class # "healthy"
    /\ (Done200 /\ response.body.prediction = "healthy") =>
           DetIdxOf(response.body.all_detections) = {}
    /\ (Done200 /\ results1.kind = "ok" /\ Len(results1.boxes) >= 1) =>
           /\ response.body.prediction # "healthy"
           /\ response.body.total_diseases >= 1

\* a box with low confidence against a confident healthy classification
C10_Witness ==
    /\ Done200
    /\ Len(results1.boxes) >= 1
    /\ \E i \in ClsIdx(response.body.all_detections) :
           /\ response.body.all_detections[i].class = "healthy"
           /\ response.body.all_detections[i].confidence > response.body.confidence
    /\ response.body.total_diseases >= 1
====
